---- MODULE Spec2Model ----
(***************************************************************************)
(* Model of pstl/internal/thread/par_for_each.h: the CRTP dispatcher       *)
(* __pstl_algorithm::operator(), and __for_each with its partitioner, its  *)
(* parallel executor (one std::thread per partition, then join) and its    *)
(* sequential executor.                                                    *)
(*                                                                         *)
(* Iterators are modelled as offsets from `first`: first = 0, sent = n,    *)
(* the elements of the range are the positions 0..n-1.  A std::vector is a *)
(* TLA+ sequence, C++ index i being TLA+ index i+1.                        *)
(***************************************************************************)
EXTENDS Integers, Sequences, FiniteSets, TLC

\* ---- bounds of the model ------------------------------------------------
MaxN == 4          \* longest range
MaxU == 3          \* largest execution-unit count
MaxGarbage == 0    \* an out-of-bounds vector read yields a position 0..MaxGarbage
MaxWalk == 5       \* a walk over memory outside the range is followed up to here

\* ---- the program's state --------------------------------------------------
VARIABLES
    entry,               \* member function the caller invokes
    policy,              \* ExPolicy argument: "seq" or "par"
    randomAccess,        \* whether Iter is a random-access iterator
    execUnits,           \* what ThreadExecutor::get_num_exec_unit() answers
    n,                   \* std::distance(first, sent) of the caller's range
    pc,                  \* position of the calling thread
    pUnits,              \* __for_each_partitioner: numProcessingUnits
    chunkSize,           \* __for_each_partitioner: chunkSize
    paritions,           \* __for_each_partitioner: paritions
    iter,                \* __for_each_partitioner: iter
    pi,                  \* __for_each_partitioner: i
    numProcessingUnits,  \* parallel: numProcessingUnits
    partitions,          \* parallel: partitions
    si,                  \* parallel: i of the spawn loop
    ji,                  \* parallel: i of the join loop
    wstate,              \* threads[i]: "unstarted", "running", "done"
    wbegin,              \* threads[i]: first argument of chunked_f
    wend,                \* threads[i]: second argument of chunked_f
    wfirst,              \* threads[i]: `first` inside sequential
    wlog,                \* threads[i]: positions f was invoked on, in order
    cfirst,              \* caller's direct sequential call: `first`
    clog,                \* caller's direct sequential call: positions f was invoked on
    seqRet,              \* value returned by the caller's direct sequential call
    parRet,              \* value returned by parallel
    dispRet,             \* value returned by operator()
    oob,                 \* an out-of-bounds read of `partitions` has happened
    fault                \* the process has been aborted (crash on undefined behaviour)

vars == <<entry, policy, randomAccess, execUnits, n, pc, pUnits, chunkSize,
          paritions, iter, pi, numProcessingUnits, partitions, si, ji,
          wstate, wbegin, wend, wfirst, wlog, cfirst, clog, seqRet, parRet,
          dispRet, oob, fault>>

callerVars == <<entry, policy, randomAccess, execUnits, n>>
partVars   == <<pUnits, chunkSize, paritions, iter, pi>>
parVars    == <<numProcessingUnits, partitions, si, ji>>
workerVars == <<wstate, wbegin, wend, wfirst, wlog>>
seqVars    == <<cfirst, clog, seqRet>>

Threads == 0 .. (MaxU - 1)

\* no value: a local not yet set, or the result of a function returning void
NoValue == -1

\* the caller's range
First == 0
Sent  == n

\* ---- helpers ----------------------------------------------------------------

\* v[i] of a std::vector, for an index inside the vector
VecAt(v, i) == v[i + 1]

\* v[i] = x of a std::vector
VecSet(v, i, x) == [v EXCEPT ![i + 1] = x]

\* std::vector<Iter> v(size): `size` value-initialised iterators
VecNew(size) == [k \in 1 .. size |-> NoValue]

\* what reading v[i] can yield: the element, or, past the end of the vector
\* (undefined behaviour), whatever lies behind the storage
VecRead(v, i) == IF i < Len(v) THEN {VecAt(v, i)} ELSE 0 .. MaxGarbage

\* whether *it is a read of an element of the caller's range
Dereferenceable(it) == it >= First /\ it < Sent

\* ---- __for_each::sequential, one step of its loop --------------------------

\* the loop of sequential stopping one element early
SeqContinue_stopsEarly(first, sent) == first # sent /\ first + 1 # sent

\* while (first != sent)
SeqContinue(first, sent) == first # sent

\* the walk stepping over every other element
SeqAdvance_skipsOne(first) == first + 2

\* first++
SeqAdvance(first) == first + 1

\* One step of sequential(first, sent, f) with `log` the invocations so far:
\* either one loop iteration f(*first++), or the loop exit and the return.
\* Dereferencing a position outside the caller's range is undefined
\* behaviour: the process crashes, or f runs on whatever is there.
SeqStep(first, sent, log) ==
    IF SeqContinue(first, sent)
    THEN IF Dereferenceable(first)
         THEN {[first |-> SeqAdvance(first), log |-> Append(log, first),
                done |-> FALSE, fault |-> FALSE]}
         ELSE {[first |-> first, log |-> log, done |-> FALSE, fault |-> TRUE]}
              \cup (IF first < MaxWalk
                    THEN {[first |-> SeqAdvance(first), log |-> Append(log, first),
                           done |-> FALSE, fault |-> FALSE]}
                    ELSE {})
    ELSE {[first |-> first, log |-> log, done |-> TRUE, fault |-> FALSE]}

\* ---- __pstl_algorithm::operator() --------------------------------------------

\* the condition of the dispatcher's `if`: the capability test is commented out
UseParallel(pol, ra) == TRUE

\* the value operator() hands back: no return statement, the result of
\* parallel/sequential is discarded
DispatchResult(r) == NoValue

\* ---- __for_each::__for_each_partitioner ---------------------------------------

\* the chunk size rounded up instead of truncated
ChunkSize_roundsUp(len, units) == (len + units - 1) \div units

\* std::size_t chunkSize = n / numProcessingUnits
ChunkSize(len, units) == len \div units

\* std::vector<Iter> paritions(n + 1)
PartitionVectorSize(len, units) == len + 1

\* for (; i != n; i++)
PartLoopContinue(i, len, units) == i # len

\* ---- __for_each::parallel ----------------------------------------------------

\* the spawn loop starting one thread too few
SpawnContinue_stopsEarly(i, units) == i # units /\ i + 1 # units

\* for (std::size_t i = 0; i != numProcessingUnits; i++)  -- the spawn loop
SpawnContinue(i, units) == i # units

\* the join loop leaving the last thread unjoined
JoinContinue_skipsLast(i, units) == i # units /\ i + 1 # units

\* for (std::size_t i = 0; i != numProcessingUnits; i++)  -- the join loop
JoinContinue(i, units) == i # units

\* join() returning at once, as a detach would
Joined_noWait(i) == TRUE

\* threads[i].join() returns once thread i has finished
Joined(i) == wstate[i] = "done"

\* ---- initial state -----------------------------------------------------------

Init ==
    /\ entry \in {"dispatch", "sequential"}
    /\ policy \in {"seq", "par"}
    /\ randomAccess \in BOOLEAN
    /\ execUnits \in 1 .. MaxU
    /\ n \in 0 .. MaxN
    /\ pc = "idle"
    /\ pUnits = NoValue
    /\ chunkSize = NoValue
    /\ paritions = << >>
    /\ iter = NoValue
    /\ pi = NoValue
    /\ numProcessingUnits = NoValue
    /\ partitions = << >>
    /\ si = NoValue
    /\ ji = NoValue
    /\ wstate = [t \in Threads |-> "unstarted"]
    /\ wbegin = [t \in Threads |-> NoValue]
    /\ wend = [t \in Threads |-> NoValue]
    /\ wfirst = [t \in Threads |-> NoValue]
    /\ wlog = [t \in Threads |-> << >>]
    /\ cfirst = NoValue
    /\ clog = << >>
    /\ seqRet = NoValue
    /\ parRet = NoValue
    /\ dispRet = NoValue
    /\ oob = FALSE
    /\ fault = FALSE

\* ---- the calling thread --------------------------------------------------------

\* operator()(exPolicy, first, sent, f): choose the branch
Dispatch ==
    /\ ~fault
    /\ pc = "idle"
    /\ entry = "dispatch"
    /\ IF UseParallel(policy, randomAccess)
       THEN pc' = "parallel" /\ cfirst' = cfirst
       ELSE pc' = "seq" /\ cfirst' = First
    /\ UNCHANGED <<callerVars, partVars, parVars, workerVars, clog, seqRet,
                   parRet, dispRet, oob, fault>>

\* the caller invokes sequential(first, sent, f) itself
CallSequential ==
    /\ ~fault
    /\ pc = "idle"
    /\ entry = "sequential"
    /\ pc' = "seq"
    /\ cfirst' = First
    /\ UNCHANGED <<callerVars, partVars, parVars, workerVars, clog, seqRet,
                   parRet, dispRet, oob, fault>>

\* sequential on the calling thread: one loop iteration, or the return
CallerSequentialStep ==
    /\ ~fault
    /\ pc = "seq"
    /\ \E o \in SeqStep(cfirst, Sent, clog) :
          /\ cfirst' = o.first
          /\ clog' = o.log
          /\ fault' = o.fault
          /\ seqRet' = IF o.done THEN o.first ELSE seqRet
          /\ pc' = IF o.done
                   THEN (IF entry = "dispatch" THEN "disp_ret" ELSE "done")
                   ELSE pc
    /\ UNCHANGED <<callerVars, partVars, parVars, workerVars, parRet, dispRet, oob>>

\* parallel, line 56: numProcessingUnits = ThreadExecutor::get_num_exec_unit()
ParallelReadUnits ==
    /\ ~fault
    /\ pc = "parallel"
    /\ numProcessingUnits' = execUnits
    /\ pc' = "part_init"
    /\ UNCHANGED <<callerVars, partVars, partitions, si, ji, workerVars, seqVars,
                   parRet, dispRet, oob, fault>>

\* __for_each_partitioner, lines 31-38: the locals before the loop
PartInit ==
    /\ ~fault
    /\ pc = "part_init"
    /\ pUnits' = execUnits
    /\ chunkSize' = ChunkSize(n, execUnits)
    /\ paritions' = VecNew(PartitionVectorSize(n, execUnits))
    /\ iter' = First
    /\ pi' = 0
    /\ pc' = "part_loop"
    /\ UNCHANGED <<callerVars, parVars, workerVars, seqVars, parRet, dispRet,
                   oob, fault>>

\* __for_each_partitioner, lines 39-44: one iteration of the loop, or its exit.
\* std::advance beyond `sent` is undefined behaviour: plain address
\* arithmetic, or an abort (checked iterators).
PartLoop ==
    /\ ~fault
    /\ pc = "part_loop"
    /\ IF PartLoopContinue(pi, n, pUnits)
       THEN \E crash \in (IF iter + chunkSize > Sent THEN BOOLEAN ELSE {FALSE}) :
               /\ fault' = crash
               /\ paritions' = IF crash
                               THEN VecSet(paritions, pi, iter)
                               ELSE VecSet(VecSet(paritions, pi, iter),
                                           pi + 1, iter + chunkSize)
               /\ iter' = IF crash THEN iter ELSE iter + chunkSize
               /\ pi' = IF crash THEN pi ELSE pi + 1
               /\ pc' = pc
       ELSE /\ pc' = "part_end"
            /\ UNCHANGED <<paritions, iter, pi, fault>>
    /\ UNCHANGED <<callerVars, pUnits, chunkSize, parVars, workerVars, seqVars,
                   parRet, dispRet, oob>>

\* __for_each_partitioner, lines 45-47, and parallel, lines 58-61:
\* paritions[n] = sent; the vector is returned into `partitions`
PartEnd ==
    /\ ~fault
    /\ pc = "part_end"
    /\ paritions' = VecSet(paritions, n, Sent)
    /\ partitions' = paritions'
    /\ si' = 0
    /\ pc' = "spawn"
    /\ UNCHANGED <<callerVars, pUnits, chunkSize, iter, pi, numProcessingUnits, ji,
                   workerVars, seqVars, parRet, dispRet, oob, fault>>

\* parallel, lines 63-64: one iteration of the spawn loop, or its exit.
\* The thread gets partitions[i] and partitions[i + 1]; an index past the
\* vector is an out-of-bounds read: a crash, or a garbage position.
Spawn ==
    /\ ~fault
    /\ pc = "spawn"
    /\ IF SpawnContinue(si, numProcessingUnits)
       THEN /\ si \in Threads
            /\ \E b \in VecRead(partitions, si), e \in VecRead(partitions, si + 1),
                  crash \in (IF si + 1 >= Len(partitions) THEN BOOLEAN ELSE {FALSE}) :
                  /\ fault' = crash
                  /\ oob' = (oob \/ si + 1 >= Len(partitions))
                  /\ IF crash
                     THEN UNCHANGED <<workerVars, si>>
                     ELSE /\ wstate' = [wstate EXCEPT ![si] = "running"]
                          /\ wbegin' = [wbegin EXCEPT ![si] = b]
                          /\ wend' = [wend EXCEPT ![si] = e]
                          /\ wfirst' = [wfirst EXCEPT ![si] = b]
                          /\ wlog' = wlog
                          /\ si' = si + 1
            /\ UNCHANGED <<pc, ji>>
       ELSE /\ pc' = "join"
            /\ ji' = 0
            /\ UNCHANGED <<si, workerVars, oob, fault>>
    /\ UNCHANGED <<callerVars, partVars, numProcessingUnits, partitions, seqVars,
                   parRet, dispRet>>

\* parallel, lines 66-67: one iteration of the join loop, or its exit
Join ==
    /\ ~fault
    /\ pc = "join"
    /\ IF JoinContinue(ji, numProcessingUnits)
       THEN /\ ji \in Threads
            /\ Joined(ji)
            /\ ji' = ji + 1
            /\ pc' = pc
       ELSE /\ pc' = "par_ret"
            /\ ji' = ji
    /\ UNCHANGED <<callerVars, partVars, numProcessingUnits, partitions, si,
                   workerVars, seqVars, parRet, dispRet, oob, fault>>

\* parallel, line 69: return sent
ParallelReturn ==
    /\ ~fault
    /\ pc = "par_ret"
    /\ parRet' = Sent
    /\ pc' = "disp_ret"
    /\ UNCHANGED <<callerVars, partVars, parVars, workerVars, seqVars, dispRet,
                   oob, fault>>

\* operator() returns to its caller
DispatchReturn ==
    /\ ~fault
    /\ pc = "disp_ret"
    /\ dispRet' = DispatchResult(IF UseParallel(policy, randomAccess)
                                 THEN parRet ELSE seqRet)
    /\ pc' = "done"
    /\ UNCHANGED <<callerVars, partVars, parVars, workerVars, seqVars, parRet,
                   oob, fault>>

\* ---- the worker threads --------------------------------------------------------

\* thread t runs chunked_f(partitions[t], partitions[t + 1], f), that is
\* sequential over its partition: one loop iteration, or the thread's end
Worker(t) ==
    /\ ~fault
    /\ wstate[t] = "running"
    /\ \E o \in SeqStep(wfirst[t], wend[t], wlog[t]) :
          /\ wfirst' = [wfirst EXCEPT ![t] = o.first]
          /\ wlog' = [wlog EXCEPT ![t] = o.log]
          /\ fault' = o.fault
          /\ wstate' = [wstate EXCEPT ![t] = IF o.done THEN "done" ELSE "running"]
    /\ UNCHANGED <<callerVars, pc, partVars, parVars, wbegin, wend, seqVars,
                   parRet, dispRet, oob>>

Next ==
    \/ Dispatch
    \/ CallSequential
    \/ CallerSequentialStep
    \/ ParallelReadUnits
    \/ PartInit
    \/ PartLoop
    \/ PartEnd
    \/ Spawn
    \/ Join
    \/ ParallelReturn
    \/ DispatchReturn
    \/ \E t \in Threads : Worker(t)

Spec == Init /\ [][Next]_vars

\* the calls with at most as many execution units as elements (1 <= U <= n):
\* on these parallel reads no index past the boundary vector
InitInRange == Init /\ execUnits <= n

SpecInRange == InitInRange /\ [][Next]_vars

\* ThreadExecutor::get_num_exec_unit() answering differently from one query
\* of a call to the next (the platform's usable parallelism changes); only
\* changes before the call's last query can be observed by the call
ProviderChanges ==
    /\ ~fault
    /\ entry = "dispatch"
    /\ pc \in {"parallel", "part_init"}
    /\ \E u \in (1 .. MaxU) \ {execUnits} : execUnits' = u
    /\ UNCHANGED <<entry, policy, randomAccess, n, pc, partVars, parVars,
                   workerVars, seqVars, parRet, dispRet, oob, fault>>

\* the program with a provider whose answer is not stable
SpecProvider == Init /\ [][Next \/ ProviderChanges]_vars

\* the steps of the calling thread
CallerNext ==
    \/ Dispatch
    \/ CallSequential
    \/ CallerSequentialStep
    \/ ParallelReadUnits
    \/ PartInit
    \/ PartLoop
    \/ PartEnd
    \/ Spawn
    \/ Join
    \/ ParallelReturn
    \/ DispatchReturn

\* every thread that can take a step is eventually scheduled: the calling
\* thread and each std::thread are separate, fairly scheduled OS threads
FairSpec ==
    /\ Init
    /\ [][Next]_vars
    /\ WF_vars(CallerNext)
    /\ \A t \in Threads : WF_vars(Worker(t))

\* ---- types ---------------------------------------------------------------------

TypeOK ==
    /\ pc \in {"idle", "seq", "parallel", "part_init", "part_loop", "part_end",
               "spawn", "join", "par_ret", "disp_ret", "done"}
    /\ n \in 0 .. MaxN
    /\ execUnits \in 1 .. MaxU
    /\ \A t \in Threads : wstate[t] \in {"unstarted", "running", "done"}
    /\ oob \in BOOLEAN
    /\ fault \in BOOLEAN

\* ---- observations used by the properties ------------------------------------------

\* how often x occurs in the sequence q
Count(q, x) == Cardinality({k \in 1 .. Len(q) : q[k] = x})

RECURSIVE VisitsBy(_, _)
\* how often f was invoked on position e by the threads 0 .. k-1
VisitsBy(k, e) == IF k = 0 THEN 0 ELSE Count(wlog[k - 1], e) + VisitsBy(k - 1, e)

\* how often f was invoked on position e by the workers of the parallel call
Visits(e) == VisitsBy(MaxU, e)

RECURSIVE SumLen(_)
\* total length of the logs of the threads 0 .. k-1
SumLen(k) == IF k = 0 THEN 0 ELSE Len(wlog[k - 1]) + SumLen(k - 1)

\* all invocations of f made by the workers of the parallel call
TotalInvocations == SumLen(MaxU)

\* the positions b, b+1, ..., e-1 in order
Ascending(b, e) == [k \in 1 .. (e - b) |-> b + k - 1]

\* the dispatch call has returned to its caller
DispatchDone == entry = "dispatch" /\ pc = "done"

\* parallel has spawned all its threads
AllSpawned == entry = "dispatch" /\ pc \in {"join", "par_ret", "disp_ret", "done"}

\* parallel has returned
ParallelReturned == entry = "dispatch" /\ pc \in {"disp_ret", "done"}

\* ---- properties ---------------------------------------------------------------------

\* C1: when a dispatch call has returned, f has been invoked exactly once on
\* every element of the range, n invocations in total, for every n and
\* every execution-unit count.
C1_ExactlyOncePerElement ==
    DispatchDone =>
        /\ \A e \in 0 .. (n - 1) : Visits(e) = 1
        /\ TotalInvocations = n

\* C2: once parallel has left its join loop, every one of the
\* numProcessingUnits threads it spawned has finished and has walked its
\* whole partition.
C2_ReturnAfterAllWorkers ==
    (entry = "dispatch" /\ pc \in {"par_ret", "disp_ret", "done"}) =>
        \A t \in 0 .. (numProcessingUnits - 1) :
            /\ wstate[t] = "done"
            /\ wfirst[t] = wend[t]

\* C2 witness: a call with three units over three elements has returned, each
\* worker having made its invocation.
C2_Witness ==
    /\ DispatchDone
    /\ numProcessingUnits = 3
    /\ n = 3
    /\ \A t \in 0 .. 2 : wstate[t] = "done" /\ Len(wlog[t]) = 1

\* C3: the partitions handed to the workers are in order, contiguous, start
\* at first and end at sent.
C3_PartitionsCoverRange ==
    AllSpawned =>
        /\ wbegin[0] = First
        /\ wend[numProcessingUnits - 1] = Sent
        /\ \A t \in 0 .. (numProcessingUnits - 1) : wbegin[t] <= wend[t]
        /\ \A t \in 0 .. (numProcessingUnits - 2) : wend[t] = wbegin[t + 1]

\* C4: the first U-1 partitions handed to the workers have n div U elements
\* and the last one has n div U + n mod U.
C4_RemainderInLastPartition ==
    AllSpawned =>
        /\ \A t \in 0 .. (numProcessingUnits - 2) :
              wend[t] - wbegin[t] = n \div numProcessingUnits
        /\ wend[numProcessingUnits - 1] - wbegin[numProcessingUnits - 1]
              = (n \div numProcessingUnits) + (n % numProcessingUnits)

\* C5: operator() returns the sentinel `sent` to its caller.
C5_DispatchReturnsSent ==
    DispatchDone => dispRet = Sent

\* C6: a dispatch call whose policy is sequential, or whose iterator is not
\* random-access, never enters parallel and never starts a thread.
C6_ParallelOnlyWhenRequested ==
    (entry = "dispatch" /\ ~(policy = "par" /\ randomAccess)) =>
        /\ pc \in {"idle", "seq", "disp_ret", "done"}
        /\ \A t \in Threads : wstate[t] = "unstarted"

\* C7: sequential(first, sent, f) invokes f on the positions first, first+1,
\* ... in this order, on all n of them by the time it returns, and returns
\* sent; the same holds of every worker's walk over a partition inside the range.
C7_SequentialInOrder ==
    /\ entry = "sequential" =>
          /\ clog = Ascending(First, First + Len(clog))
          /\ pc = "done" => (clog = Ascending(First, Sent) /\ seqRet = Sent)
    /\ \A t \in Threads :
          (wstate[t] = "done" /\ wbegin[t] <= wend[t] /\ wend[t] <= Sent) =>
              wlog[t] = Ascending(wbegin[t], wend[t])

\* C7 witness: a direct sequential call over at least two elements has returned.
C7_Witness ==
    /\ entry = "sequential"
    /\ pc = "done"
    /\ n >= 2
    /\ Len(clog) = n

\* C8: every index of `partitions` that the spawn loop reads lies inside the
\* vector.
C8_NoOutOfBoundsRead ==
    /\ ~oob
    /\ (pc = "spawn" /\ SpawnContinue(si, numProcessingUnits)) =>
          si + 1 < Len(partitions)

\* C9: a dispatch call over an empty range never crashes, gives every thread
\* an empty partition and never invokes f.
C9_EmptyRangeNoInvocation ==
    (entry = "dispatch" /\ n = 0) =>
        /\ ~fault
        /\ \A t \in Threads :
              /\ wlog[t] = << >>
              /\ wstate[t] # "unstarted" => wbegin[t] = wend[t]

\* C10: with more units than elements, the first U - n partitions handed to
\* the workers are empty and their workers invoke nothing, and every element
\* is visited exactly once by the time the call returns.
C10_LeadingPartitionsEmpty ==
    (AllSpawned /\ numProcessingUnits > n) =>
        /\ \A t \in 0 .. (numProcessingUnits - n - 1) :
              wbegin[t] = wend[t] /\ wlog[t] = << >>
        /\ pc = "done" => \A e \in 0 .. (n - 1) : Visits(e) = 1

\* C11: with an execution-unit count of 1 a dispatch call never crashes,
\* starts the single thread 0 on the whole range [first, sent), and that
\* thread invokes f on first, first+1, ..., sent-1 in this order, as
\* sequential(first, sent, f) does.
C11_SingleUnitIsSequential ==
    (entry = "dispatch" /\ execUnits = 1) =>
        /\ ~fault
        /\ \A t \in Threads \ {0} : wstate[t] = "unstarted"
        /\ AllSpawned => (wbegin[0] = First /\ wend[0] = Sent)
        /\ wlog[0] = Ascending(First, First + Len(wlog[0]))
        /\ pc = "done" => wlog[0] = Ascending(First, Sent)

\* C12: under fair scheduling every dispatch call eventually returns to its
\* caller, for every n and every execution-unit count.
C12_RunsToCompletion ==
    (entry = "dispatch") ~> (pc = "done")

\* the phase of a parallel dispatch call, numbered in the order Idle,
\* Partitioning, Spawning, Running, Joined, Returned
Phase ==
    CASE pc = "idle" -> 0
      [] pc \in {"parallel", "part_init", "part_loop", "part_end"} -> 1
      [] pc = "spawn" -> 2
      [] pc = "join" -> 3
      [] pc = "par_ret" -> 4
      [] OTHER -> 5

\* the threads that have been started
Started == {t \in Threads : wstate[t] # "unstarted"}

\* C13, the state part: no thread is started before the partitioner has
\* returned, the caller joins only when all numProcessingUnits threads are
\* started, and parallel is left only when every one of them has finished.
PhaseInvariant ==
    entry = "dispatch" =>
        /\ Phase <= 1 => (Started = {} /\ partitions = << >>)
        /\ Phase >= 2 => Len(partitions) = Len(paritions)
        /\ Phase >= 3 => Started = 0 .. (numProcessingUnits - 1)
        /\ Phase >= 4 => \A t \in Started : wstate[t] = "done"

\* C13: a parallel dispatch call goes through Idle, Partitioning, Spawning,
\* Running, Joined, Returned in this order, one phase at a time, with the
\* boundaries computed before the first spawn, all threads spawned before
\* the first join and all threads finished before the return.
C13_PhasesInOrder ==
    /\ [](PhaseInvariant)
    /\ [][entry = "dispatch" => (Phase' = Phase \/ Phase' = Phase + 1)]_vars

\* C13 witness: a call with two units and no out-of-bounds read has gone
\* through all phases.
C13_Witness ==
    /\ DispatchDone
    /\ numProcessingUnits = 2
    /\ ~oob
    /\ Started = {0, 1}

\* C14: at every moment each worker has invoked f on the positions
\* wbegin, wbegin+1, ... of its partition, in this order and without a gap,
\* whatever the other workers have done.
C14_PartitionOrder ==
    \A t \in Threads :
        /\ wlog[t] = Ascending(wbegin[t], wbegin[t] + Len(wlog[t]))
        /\ \A j, k \in 1 .. Len(wlog[t]) : j < k => wlog[t][j] < wlog[t][k]

\* C14 witness: two workers have both invoked f, one of them twice at least,
\* in a call without out-of-bounds read.
C14_Witness ==
    /\ entry = "dispatch"
    /\ ~oob
    /\ \E t, u \in Threads : t # u /\ Len(wlog[t]) >= 2 /\ Len(wlog[u]) >= 1

\* C15: parallel never has more than numProcessingUnits threads, has started
\* exactly the threads 0 .. numProcessingUnits-1 when its spawn loop ends,
\* whatever n is; a thread whose partition is empty invokes nothing, and
\* every started thread is joined before parallel returns.
C15_ExactlyUWorkers ==
    entry = "dispatch" =>
        /\ Started \subseteq 0 .. (execUnits - 1)
        /\ AllSpawned => Cardinality(Started) = execUnits
        /\ \A t \in Started : wbegin[t] = wend[t] => wlog[t] = << >>
        /\ ParallelReturned =>
              (ji = execUnits /\ \A t \in Started : wstate[t] = "done")

\* C15 witness: a call with three units over an empty range has returned,
\* its three threads started on empty partitions, finished without an
\* invocation and joined.
C15_Witness ==
    /\ DispatchDone
    /\ execUnits = 3
    /\ n = 0
    /\ Cardinality(Started) = 3
    /\ ji = 3
    /\ \A t \in Started : wbegin[t] = wend[t] /\ wstate[t] = "done" /\ wlog[t] = << >>

\* how often the call has queried ThreadExecutor::get_num_exec_unit()
UnitReads ==
    (IF numProcessingUnits # NoValue THEN 1 ELSE 0)
    + (IF pUnits # NoValue THEN 1 ELSE 0)

\* C16: a dispatch call queries the execution-unit count once, and the
\* count used for the chunk size is the count of threads spawned.
C16_UnitsReadOnce ==
    entry = "dispatch" =>
        /\ UnitReads <= 1
        /\ (pUnits # NoValue /\ numProcessingUnits # NoValue) =>
              pUnits = numProcessingUnits

\* C17: the partitioner returns exactly U + 1 boundaries after U advances:
\* first + k * chunkSize at index k < U, and sent at index U.
C17_UPlusOneBoundaries ==
    (entry = "dispatch" /\ Phase >= 2) =>
        /\ Len(partitions) = numProcessingUnits + 1
        /\ pi = numProcessingUnits
        /\ \A k \in 0 .. (numProcessingUnits - 1) :
              k < Len(partitions) => VecAt(partitions, k) = First + k * (n \div numProcessingUnits)
        /\ numProcessingUnits < Len(partitions) =>
              VecAt(partitions, numProcessingUnits) = Sent

\* C18: in the partitioner the running iterator and every boundary stored
\* so far lie between first and sent, and the partitioner never crashes.
C18_BoundariesInsideRange ==
    (entry = "dispatch" /\ iter # NoValue) =>
        /\ ~(pc = "part_loop" /\ fault)
        /\ First <= iter /\ iter <= Sent
        /\ \A k \in 1 .. Len(paritions) :
              paritions[k] # NoValue => (First <= paritions[k] /\ paritions[k] <= Sent)

\* C19: in a call with 1 <= U <= n, f is never invoked on a position at or
\* beyond U * (n div U), never twice on a position, never on the same
\* position by two workers, and once the call has returned it has been
\* invoked exactly once on each position below U * (n div U).
C19_VisitsFirstUChunks ==
    (entry = "dispatch" /\ execUnits <= n) =>
        /\ \A t \in Threads : \A k \in 1 .. Len(wlog[t]) :
              /\ wlog[t][k] >= First
              /\ wlog[t][k] < First + execUnits * (n \div execUnits)
              /\ Visits(wlog[t][k]) = 1
        /\ \A t, u \in Threads : \A j \in 1 .. Len(wlog[t]), k \in 1 .. Len(wlog[u]) :
              t # u => wlog[t][j] # wlog[u][k]
        /\ pc = "done" =>
              /\ \A e \in 0 .. (execUnits * (n \div execUnits) - 1) : Visits(e) = 1
              /\ TotalInvocations = execUnits * (n \div execUnits)
              /\ n % execUnits = 0 => \A e \in 0 .. (n - 1) : Visits(e) = 1

\* C19 witness: a call over three elements with two units has returned after
\* two invocations, the last element not visited.
C19_Witness ==
    /\ DispatchDone
    /\ n = 3
    /\ execUnits = 2
    /\ TotalInvocations = 2
    /\ Visits(2) = 0

====
